---- MODULE Spec2Model ----
(***************************************************************************)
(* Buck converter Ciss loss / junction temperature sweep (src/app.py).     *)
(*                                                                         *)
(* The script is re-run top to bottom whenever a sidebar widget changes.   *)
(* One run: read the widgets, parse the frequency text, build the Ciss     *)
(* grid, form the duty cycle, then for every frequency sweep the grid,     *)
(* plot the two curves and annotate them with the end-to-end slopes.       *)
(*                                                                         *)
(* Numbers.  A float is modelled as an exact value n/d * 10^e in a unique  *)
(* normal form, or as one of the IEEE specials inf / nan.  Rounding to 53  *)
(* bits, signed zeros and overflow to infinity are not modelled: every     *)
(* result below is a statement about the formulas evaluated exactly.       *)
(* Division is modelled twice, as the code has it twice: a Python float    *)
(* divided by a Python float raises on a zero divisor, a numpy float64     *)
(* divided by zero yields inf or nan.                                      *)
(***************************************************************************)
EXTENDS Integers, Sequences, FiniteSets, TLC

VARIABLES V_in, V_out, V_drive, I_driver, I_out, rdson_mOhm, Rtha, Tamb,
          ciss_start_pF, ciss_end_pF, freq_input,
          pc, freq_list_khz, parse_error,
          ciss_range_pF, ciss_range_F, D,
          fi, f_khz, f_hz, P_cond, ci, P_total_list, T_j_list,
          lines, slopes

params == <<V_in, V_out, V_drive, I_driver, I_out, rdson_mOhm, Rtha, Tamb>>
inputs == <<params, ciss_start_pF, ciss_end_pF, freq_input>>
setup  == <<freq_list_khz, parse_error, ciss_range_pF, ciss_range_F, D>>
loop   == <<fi, f_khz, f_hz, P_cond, ci, P_total_list, T_j_list>>
output == <<lines, slopes>>
vars   == <<inputs, pc, setup, loop, output>>

----------------------------------------------------------------------------
(* Float values *)

Abs(x) == IF x < 0 THEN -x ELSE x
Sgn(x) == IF x < 0 THEN -1 ELSE IF x > 0 THEN 1 ELSE 0

RECURSIVE GCD(_, _)
GCD(a, b) == IF b = 0 THEN a ELSE GCD(b, a % b)

RECURSIVE Pow10(_)
Pow10(k) == IF k = 0 THEN 1 ELSE 10 * Pow10(k - 1)

Fin(n, d, e) == [k |-> "fin", n |-> n, d |-> d, e |-> e]
Zero  == Fin(0, 1, 0)
Inf(s) == [k |-> "inf", n |-> s, d |-> 1, e |-> 0]
NaN   == [k |-> "nan", n |-> 0, d |-> 1, e |-> 0]
Raise == [k |-> "raise", n |-> 0, d |-> 1, e |-> 0]

IsFinite(a) == a.k = "fin"
IsZero(a)   == a.k = "fin" /\ a.n = 0

RECURSIVE StripDen(_, _, _)
StripDen(n, d, e) ==
    IF d % 2 = 0 THEN StripDen(n * 5, d \div 2, e - 1)
    ELSE IF d % 5 = 0 THEN StripDen(n * 2, d \div 5, e - 1)
    ELSE <<n, d, e>>

RECURSIVE StripNum(_, _, _)
StripNum(n, d, e) ==
    IF n % 10 = 0 THEN StripNum(n \div 10, d, e + 1) ELSE <<n, d, e>>

\* The unique normal form of n/d * 10^e (d > 0): gcd(n, d) = 1, d coprime
\* to 10, n not a multiple of 10.
Norm(n, d, e) ==
    IF n = 0 THEN Zero
    ELSE LET g  == GCD(Abs(n), d)
             s1 == StripDen(n \div g, d \div g, e)
             s2 == StripNum(s1[1], s1[2], s1[3])
         IN  Fin(s2[1], s2[2], s2[3])

Int2F(i)  == Norm(i, 1, 0)
Dec(n, e) == Norm(n, 1, e)

Neg(a) == IF a.k = "nan" THEN NaN ELSE [a EXCEPT !.n = -a.n]
SignOf(a) == Sgn(a.n)

Add(a, b) ==
    IF a.k = "nan" \/ b.k = "nan" THEN NaN
    ELSE IF a.k = "inf" /\ b.k = "inf" THEN (IF a.n = b.n THEN a ELSE NaN)
    ELSE IF a.k = "inf" THEN a
    ELSE IF b.k = "inf" THEN b
    ELSE LET e  == IF a.e < b.e THEN a.e ELSE b.e
             na == a.n * Pow10(a.e - e)
             nb == b.n * Pow10(b.e - e)
         IN  Norm(na * b.d + nb * a.d, a.d * b.d, e)

Sub(a, b) == Add(a, Neg(b))

Mul(a, b) ==
    IF a.k = "nan" \/ b.k = "nan" THEN NaN
    ELSE IF a.k = "inf" \/ b.k = "inf"
         THEN (IF IsZero(a) \/ IsZero(b) THEN NaN ELSE Inf(SignOf(a) * SignOf(b)))
    ELSE LET g1 == GCD(Abs(a.n), b.d)
             g2 == GCD(Abs(b.n), a.d)
         IN  IF a.n = 0 \/ b.n = 0 THEN Zero
             ELSE Norm((a.n \div g1) * (b.n \div g2),
                       (a.d \div g2) * (b.d \div g1), a.e + b.e)

\* 1/b for a finite non-zero b
Recip(b) == Norm(Sgn(b.n) * b.d, Abs(b.n), -b.e)

\* numpy float64 division (IEEE-754): x/0 is inf, 0/0 is nan, no exception
NpDiv(a, b) ==
    IF a.k = "nan" \/ b.k = "nan" THEN NaN
    ELSE IF a.k = "inf" /\ b.k = "inf" THEN NaN
    ELSE IF a.k = "inf" THEN Inf(a.n * (IF SignOf(b) < 0 THEN -1 ELSE 1))
    ELSE IF b.k = "inf" THEN Zero
    ELSE IF IsZero(b) THEN (IF IsZero(a) THEN NaN ELSE Inf(SignOf(a)))
    ELSE Mul(a, Recip(b))

\* Python float division: a zero divisor raises ZeroDivisionError
PyDiv(a, b) == IF IsZero(b) THEN Raise ELSE NpDiv(a, b)

Less(a, b) == IsFinite(a) /\ IsFinite(b) /\ Sub(a, b).n < 0

----------------------------------------------------------------------------
(* Text of the frequency box: a sequence of characters *)

Digits == {"0", "1", "2", "3", "4", "5", "6", "7", "8", "9"}

DigitVal(c) ==
    CASE c = "0" -> 0 [] c = "1" -> 1 [] c = "2" -> 2 [] c = "3" -> 3
      [] c = "4" -> 4 [] c = "5" -> 5 [] c = "6" -> 6 [] c = "7" -> 7
      [] c = "8" -> 8 [] c = "9" -> 9

\* str.split(','): always at least one token, empty tokens kept
RECURSIVE SplitAcc(_, _, _)
SplitAcc(s, cur, acc) ==
    IF s = <<>> THEN Append(acc, cur)
    ELSE IF Head(s) = "," THEN SplitAcc(Tail(s), <<>>, Append(acc, cur))
    ELSE SplitAcc(Tail(s), Append(cur, Head(s)), acc)

Split(s) == SplitAcc(s, <<>>, <<>>)

RECURSIVE LStrip(_)
LStrip(s) == IF s # <<>> /\ Head(s) = " " THEN LStrip(Tail(s)) ELSE s

RECURSIVE RStrip(_)
RStrip(s) ==
    IF s # <<>> /\ s[Len(s)] = " " THEN RStrip(SubSeq(s, 1, Len(s) - 1)) ELSE s

Strip(s) == RStrip(LStrip(s))

RECURSIVE DigitsVal(_)
DigitsVal(s) ==
    IF s = <<>> THEN 0 ELSE 10 * DigitsVal(SubSeq(s, 1, Len(s) - 1)) + DigitVal(s[Len(s)])

\* float(tok) on the characters of this model (digits . - , space x i n f a):
\* an optional minus sign, then either digits with at most one decimal point
\* and at least one digit, or one of the words inf, nan.  Anything else raises
\* ValueError.
ParseFloat(tok) ==
    LET neg  == tok # <<>> /\ Head(tok) = "-"
        body == IF neg THEN Tail(tok) ELSE tok
        dots == {i \in 1..Len(body) : body[i] = "."}
        digs == {i \in 1..Len(body) : body[i] \in Digits}
        ok   == /\ Cardinality(dots) <= 1
                /\ Cardinality(digs) >= 1
                /\ dots \cup digs = 1..Len(body)
        dot  == IF dots = {} THEN Len(body) + 1 ELSE CHOOSE i \in dots : TRUE
        ds   == SubSeq(body, 1, dot - 1) \o SubSeq(body, dot + 1, Len(body))
        frac == IF dots = {} THEN 0 ELSE Len(body) - dot
        v    == DigitsVal(ds)
    IN  IF ok THEN Norm(IF neg THEN -v ELSE v, 1, -frac)
        ELSE IF body = <<"i", "n", "f">> THEN Inf(IF neg THEN -1 ELSE 1)
        ELSE IF body = <<"n", "a", "n">> THEN NaN
        ELSE Raise

----------------------------------------------------------------------------
(* Widget values *)

SampleCount == 100
CissStartMin == 500
CissStartMax == 2000
CissEndMin == 2000
CissEndDefault == 5000

Half     == Dec(5, -1)
Thousand == Int2F(1000)
PicoF    == Dec(1, -12)

DefaultParams ==
    <<Int2F(24), Int2F(12), Int2F(10), Int2F(1), Int2F(10), Int2F(10), Int2F(40), Int2F(25)>>

DefaultText == <<"1","0","0",","," ","2","0","0",","," ","3","0","0">>

\* the values the number inputs are set to in this model
VinSet     == {Int2F(24), Zero}
IdriverSet == {Int2F(1), Zero}
RthaSet    == {Int2F(40), Zero}
ParamSet ==
    {<<vi, Int2F(12), Int2F(10), idr, Int2F(10), Int2F(10), rth, Int2F(25)>> :
        vi \in VinSet, idr \in IdriverSet, rth \in RthaSet}
    \cup
    { <<Int2F(24), Int2F(30), Int2F(10), Int2F(1), Int2F(10), Int2F(10), Int2F(40), Int2F(25)>>,
      <<Int2F(24), Int2F(12), Int2F(10), Int2F(1), Int2F(10), Int2F(25), Int2F(40), Int2F(-5)>>,
      <<Int2F(12), Int2F(6), Int2F(10), Dec(5, -1), Int2F(2), Int2F(10), Int2F(10), Int2F(25)>> }

\* the positions the two sliders are set to in this model
CissStartSet == {CissStartMin, CissStartMax}
CissEndSet   == {CissEndMin, CissEndDefault}

\* the texts typed into the frequency box in this model
TextSet ==
    { DefaultText,
      <<"3","0","0",",","1","0","0">>,
      <<"1","0","0",",","1","0","0">>,
      <<" ","5","0"," ">>,
      <<"2",".","5",","," ","-","2","0">>,
      <<"1","0","0",",","x">>,
      <<"1",",",",","2">>,
      <<"2"," ","0">>,
      <<"n","a","n",",","-","i","n","f">>,
      <<>> }

----------------------------------------------------------------------------
(* Lines 22, 31-44: derived inputs *)

\* variant: the milliohm value used as ohms
Rdson_NoConv == rdson_mOhm

Rdson == PyDiv(rdson_mOhm, Thousand)

DefaultFreqList == <<Int2F(100), Int2F(200), Int2F(300)>>

Tokens(text) == LET ts == Split(text) IN [i \in 1..Len(ts) |-> ParseFloat(Strip(ts[i]))]

\* variant: tokens that fail to parse are dropped, the others kept
ParseFreqList_Skip(text) ==
    LET ts == Split(text)
        ok == SelectSeq(ts, LAMBDA t : ParseFloat(Strip(t)) # Raise)
    IN  [i \in 1..Len(ok) |-> ParseFloat(Strip(ok[i]))]

\* try: [float(x.strip()) for x in freq_input.split(',')]  except: default
ParseFreqList(text) ==
    LET vs == Tokens(text)
    IN  IF \E i \in 1..Len(vs) : vs[i] = Raise THEN DefaultFreqList ELSE vs

ParseFailed(text) == LET vs == Tokens(text) IN \E i \in 1..Len(vs) : vs[i] = Raise

\* np.linspace(start, stop, num): start + i*step, the last sample set to stop
Linspace(start, stop, num) ==
    LET step == NpDiv(Sub(stop, start), Int2F(num - 1))
    IN  [i \in 1..num |->
            IF i = num THEN stop ELSE Add(Mul(Int2F(i - 1), step), start)]

----------------------------------------------------------------------------
(* Lines 50-70: the loss model *)

\* variant: every scenario computed at the first frequency of the list
FHz_First(fk) == Mul(freq_list_khz[1], Int2F(1000))

FHz(fk) == Mul(fk, Thousand)

PCond == Mul(Mul(D, Mul(I_out, I_out)), Rdson)

TSw(Ciss) == NpDiv(Mul(Ciss, V_drive), I_driver)

PSw(Ciss, fhz) == Mul(Mul(Mul(Mul(Half, V_in), I_out), TSw(Ciss)), fhz)

PGate(Ciss, fhz) == Mul(Mul(Mul(Ciss, V_drive), V_drive), fhz)

\* variant: the total of the frequency-sweep mode, gate-drive loss left out
PTotal_NoGate(pcond, Ciss, fhz) == Add(pcond, PSw(Ciss, fhz))

PTotal(pcond, Ciss, fhz) == Add(Add(pcond, PSw(Ciss, fhz)), PGate(Ciss, fhz))

\* variant: the thermal resistance left out
TJ_NoRth(ptotal) == Add(Tamb, ptotal)

TJ(ptotal) == Add(Tamb, Mul(ptotal, Rtha))

\* variant: the power list is not emptied between scenarios
ResetP_Stale == P_total_list

ResetP == <<>>
ResetT == <<>>

\* variant: slope per pF, the conversion to per-nF left out
SlopeOf_NoScale(ys, xs) ==
    NpDiv(Sub(ys[Len(ys)], ys[1]), Sub(xs[Len(xs)], xs[1]))

\* variant: a zero denominator is guarded and reported as slope 0
SlopeOf_Guarded(ys, xs) ==
    LET delta_Y    == Sub(ys[Len(ys)], ys[1])
        delta_C_pF == Sub(xs[Len(xs)], xs[1])
    IN  IF IsZero(delta_C_pF) THEN Zero
        ELSE Mul(NpDiv(delta_Y, delta_C_pF), Int2F(1000))

(* Lines 81-86: the slope between the first and the last sample *)
SlopeOf(ys, xs) ==
    LET delta_Y    == Sub(ys[Len(ys)], ys[1])
        delta_C_pF == Sub(xs[Len(xs)], xs[1])
    IN  Mul(NpDiv(delta_Y, delta_C_pF), Thousand)

----------------------------------------------------------------------------
(* The run *)

\* first run: every widget at its default value, nothing computed yet
Init ==
    /\ V_in = DefaultParams[1] /\ V_out = DefaultParams[2]
    /\ V_drive = DefaultParams[3] /\ I_driver = DefaultParams[4]
    /\ I_out = DefaultParams[5] /\ rdson_mOhm = DefaultParams[6]
    /\ Rtha = DefaultParams[7] /\ Tamb = DefaultParams[8]
    /\ ciss_start_pF = CissStartMin /\ ciss_end_pF = CissEndDefault
    /\ freq_input = DefaultText
    /\ pc = "parse"
    /\ freq_list_khz = <<>> /\ parse_error = FALSE
    /\ ciss_range_pF = <<>> /\ ciss_range_F = <<>> /\ D = Zero
    /\ fi = 1 /\ f_khz = Zero /\ f_hz = Zero /\ P_cond = Zero /\ ci = 1
    /\ P_total_list = <<>> /\ T_j_list = <<>>
    /\ lines = <<>> /\ slopes = <<>>

\* lines 31-36
ParseFreq ==
    /\ pc = "parse"
    /\ freq_list_khz' = ParseFreqList(freq_input)
    /\ parse_error' = ParseFailed(freq_input)
    /\ pc' = "grid"
    /\ UNCHANGED <<inputs, ciss_range_pF, ciss_range_F, D, loop, output>>

\* lines 42-43
BuildGrid ==
    /\ pc = "grid"
    /\ LET g == Linspace(Int2F(ciss_start_pF), Int2F(ciss_end_pF), SampleCount)
       IN  /\ ciss_range_pF' = g
           /\ ciss_range_F' = [i \in 1..Len(g) |-> Mul(g[i], PicoF)]
    /\ pc' = "duty"
    /\ UNCHANGED <<inputs, freq_list_khz, parse_error, D, loop, output>>

\* line 44, V_in # 0
DutyCycle ==
    /\ pc = "duty"
    /\ PyDiv(V_out, V_in) # Raise
    /\ D' = PyDiv(V_out, V_in)
    /\ pc' = "scenario"
    /\ UNCHANGED <<inputs, freq_list_khz, parse_error, ciss_range_pF, ciss_range_F,
                   loop, output>>

\* line 44, V_in = 0: ZeroDivisionError ends the run
DutyCycleRaises ==
    /\ pc = "duty"
    /\ PyDiv(V_out, V_in) = Raise
    /\ pc' = "error"
    /\ UNCHANGED <<inputs, setup, loop, output>>

\* lines 49-56: next frequency
ScenarioStart ==
    /\ pc = "scenario"
    /\ fi <= Len(freq_list_khz)
    /\ f_khz' = freq_list_khz[fi]
    /\ f_hz' = FHz(freq_list_khz[fi])
    /\ P_total_list' = ResetP
    /\ T_j_list' = ResetT
    /\ P_cond' = PCond
    /\ ci' = 1
    /\ pc' = "point"
    /\ UNCHANGED <<inputs, setup, fi, output>>

\* lines 58-70: one grid point
GridPoint ==
    /\ pc = "point"
    /\ ci <= Len(ciss_range_F)
    /\ LET P_total == PTotal(P_cond, ciss_range_F[ci], f_hz)
       IN  /\ P_total_list' = Append(P_total_list, P_total)
           /\ T_j_list' = Append(T_j_list, TJ(P_total))
    /\ ci' = ci + 1
    /\ UNCHANGED <<inputs, pc, setup, fi, f_khz, f_hz, P_cond, output>>

\* lines 75-95: plot the two curves, compute and annotate the slopes
PlotAndSlope ==
    /\ pc = "point"
    /\ ci > Len(ciss_range_F)
    /\ lines' = Append(lines, [label |-> f_khz, x |-> ciss_range_pF,
                               P |-> P_total_list, T |-> T_j_list])
    /\ slopes' = Append(slopes, [P |-> SlopeOf(P_total_list, ciss_range_pF),
                                 T |-> SlopeOf(T_j_list, ciss_range_pF)])
    /\ fi' = fi + 1
    /\ pc' = "scenario"
    /\ UNCHANGED <<inputs, setup, f_khz, f_hz, P_cond, ci, P_total_list, T_j_list>>

\* lines 97-127: the loop is over, the figure is styled and shown
Finish ==
    /\ pc = "scenario"
    /\ fi > Len(freq_list_khz)
    /\ pc' = "done"
    /\ UNCHANGED <<inputs, setup, loop, output>>

\* lines 14-31: a widget changes and the script runs again from the top
Rerun ==
    /\ pc \in {"done", "error"}
    /\ \E p \in ParamSet :
        /\ V_in' = p[1] /\ V_out' = p[2] /\ V_drive' = p[3] /\ I_driver' = p[4]
        /\ I_out' = p[5] /\ rdson_mOhm' = p[6] /\ Rtha' = p[7] /\ Tamb' = p[8]
    /\ ciss_start_pF' \in CissStartSet
    /\ ciss_end_pF' \in CissEndSet
    /\ freq_input' \in TextSet
    /\ inputs' # inputs
    /\ pc' = "parse"
    /\ freq_list_khz' = <<>> /\ parse_error' = FALSE
    /\ ciss_range_pF' = <<>> /\ ciss_range_F' = <<>> /\ D' = Zero
    /\ fi' = 1 /\ f_khz' = Zero /\ f_hz' = Zero /\ P_cond' = Zero /\ ci' = 1
    /\ P_total_list' = <<>> /\ T_j_list' = <<>>
    /\ lines' = <<>> /\ slopes' = <<>>

Next ==
    \/ ParseFreq
    \/ BuildGrid
    \/ DutyCycle
    \/ DutyCycleRaises
    \/ ScenarioStart
    \/ GridPoint
    \/ PlotAndSlope
    \/ Finish
    \/ Rerun

Spec == Init /\ [][Next]_vars

----------------------------------------------------------------------------
(* Properties *)

Positive(a) == IsFinite(a) /\ a.n > 0
IsFloat(a)  == a.k \in {"fin", "inf", "nan"}
ZeroWidth   == ciss_start_pF = ciss_end_pF
Plotted     == pc \in {"scenario", "done"}

\* The loss formulas as the design states them, in SI units.
StatedRdson == Mul(rdson_mOhm, Dec(1, -3))
StatedPCond == Mul(NpDiv(V_out, V_in), Mul(Mul(I_out, I_out), StatedRdson))
StatedPSw(Ciss, Fsw) ==
    Mul(Mul(Mul(Mul(Half, V_in), I_out), NpDiv(Mul(Ciss, V_drive), I_driver)), Fsw)
StatedPGate(Ciss, Fsw) == Mul(Mul(Ciss, Mul(V_drive, V_drive)), Fsw)
StatedPTotal(x_pF, fk) ==
    LET Ciss == Mul(x_pF, Dec(1, -12))
        Fsw  == Mul(fk, Int2F(1000))
    IN  Add(StatedPCond, Add(StatedPSw(Ciss, Fsw), StatedPGate(Ciss, Fsw)))
StatedTj(x_pF, fk) == Add(Tamb, Mul(StatedPTotal(x_pF, fk), Rtha))

\* C1: in the capacitance sweep every recorded total loss is
\* P_cond + P_sw + P_gate with P_cond = (Vout/Vin)*Iout^2*Rdson,
\* P_sw = 0.5*Vin*Iout*(Ciss*Vdrive/Idriver)*Fsw, P_gate = Ciss*Vdrive^2*Fsw,
\* and every recorded junction temperature is Tamb + P_total*Rth_ja, for
\* every frequency and every grid value of Ciss.
C1_TotalIsSumOfThree ==
    /\ (pc = "point" /\ ci > 1) =>
          /\ Len(P_total_list) = ci - 1 /\ Len(T_j_list) = ci - 1
          /\ P_total_list[ci - 1] = StatedPTotal(ciss_range_pF[ci - 1], f_khz)
          /\ T_j_list[ci - 1] = StatedTj(ciss_range_pF[ci - 1], f_khz)
    /\ Plotted =>
          \A j \in DOMAIN lines :
              /\ Len(lines[j].P) = SampleCount /\ Len(lines[j].T) = SampleCount
              /\ \A i \in 1..SampleCount :
                    /\ lines[j].P[i] = StatedPTotal(ciss_range_pF[i], freq_list_khz[j])
                    /\ lines[j].T[i] = StatedTj(ciss_range_pF[i], freq_list_khz[j])

C1_Witness ==
    /\ pc = "done" /\ Len(lines) = 3
    /\ IsFinite(lines[3].P[SampleCount])
    /\ lines[3].P[SampleCount] # lines[1].P[1]

\* C2: with the default parameters and a 500..5000 pF sweep, the 100 kHz
\* curve starts at P_total = 0.565 W, Tj = 47.6 C, ends at P_total = 1.15 W,
\* Tj = 71.0 C, and its power slope is 0.13 W/nF.
C2_ConcreteScenario ==
    (/\ params = DefaultParams
     /\ ciss_start_pF = 500 /\ ciss_end_pF = 5000) =>
        \A j \in DOMAIN lines :
            lines[j].label = Int2F(100) =>
                /\ lines[j].x[1] = Int2F(500)
                /\ lines[j].P[1] = Dec(565, -3)
                /\ lines[j].T[1] = Dec(476, -1)
                /\ lines[j].x[Len(lines[j].x)] = Int2F(5000)
                /\ lines[j].P[Len(lines[j].P)] = Dec(115, -2)
                /\ lines[j].T[Len(lines[j].T)] = Int2F(71)
                /\ slopes[j].P = Dec(13, -2)

C2_Witness ==
    /\ pc = "done"
    /\ params = DefaultParams /\ ciss_start_pF = 500 /\ ciss_end_pF = 5000
    /\ \E j \in DOMAIN lines : lines[j].label = Int2F(100) /\ j \in DOMAIN slopes

\* C3: each reported slope is the one secant between the first and the last
\* sample of its curve, (y[last] - y[first]) / (x[last] - x[first]) * 1000
\* with x in pF, for the power slope and for the temperature slope.
C3_SlopeIsEndpointSecant ==
    /\ Len(slopes) = Len(lines)
    /\ \A j \in DOMAIN slopes :
        LET dx == Sub(Int2F(ciss_end_pF), Int2F(ciss_start_pF))
            yP == lines[j].P
            yT == lines[j].T
        IN  /\ slopes[j].P = Mul(NpDiv(Sub(yP[SampleCount], yP[1]), dx), Int2F(1000))
            /\ slopes[j].T = Mul(NpDiv(Sub(yT[SampleCount], yT[1]), dx), Int2F(1000))

C3_Witness ==
    /\ pc = "done" /\ Len(slopes) = 3 /\ ~ZeroWidth
    /\ IsFinite(slopes[3].P) /\ ~IsZero(slopes[3].P)
    /\ IsFinite(slopes[3].T) /\ ~IsZero(slopes[3].T)

\* C4: with Vin = 0 the computation does not raise (the non-finite duty
\* cycle flows into the results and the sweep completes).
C4_VinZeroDoesNotRaise == IsZero(V_in) => pc # "error"

\* C5: the sweep bounds handed to the calculation always satisfy
\* ciss_end_pF > ciss_start_pF, so x[last] - x[first] is never zero.
C5_BoundsDistinct == ciss_end_pF > ciss_start_pF

\* C6: on a zero-width sweep no scenario gets a finite slope: the division
\* by zero shows as a non-finite value (or an error).
C6_ZeroWidthNeverFinite ==
    ZeroWidth =>
        \A j \in DOMAIN slopes : ~IsFinite(slopes[j].P) /\ ~IsFinite(slopes[j].T)

C6_Witness == ZeroWidth /\ pc = "done" /\ Len(slopes) >= 2

\* C7: if any comma-separated token of the text fails to parse, the
\* frequency list is the default [100, 200, 300] and the run goes on;
\* otherwise it is the parsed tokens in input order.  Either way the list
\* that reaches the sweep is non-empty and holds only numbers.
C7_ParseOrDefault ==
    pc # "parse" =>
        LET toks == Split(freq_input)
            val(i) == ParseFloat(Strip(toks[i]))
            bad  == \E i \in 1..Len(toks) : val(i) = Raise
        IN  /\ bad => /\ freq_list_khz = <<Int2F(100), Int2F(200), Int2F(300)>>
                      /\ (pc = "error" => IsZero(V_in))
            /\ ~bad => /\ Len(freq_list_khz) = Len(toks)
                       /\ \A i \in 1..Len(toks) : freq_list_khz[i] = val(i)
            /\ Len(freq_list_khz) >= 1
            /\ \A i \in 1..Len(freq_list_khz) : IsFloat(freq_list_khz[i])

C7_Witness ==
    /\ pc = "done" /\ parse_error /\ Len(lines) = 3
    /\ freq_input # <<>>

\* one scenario's curves as a function of its frequency alone
C8_RowP(fk) == [i \in 1..SampleCount |-> PTotal(PCond, ciss_range_F[i], Mul(fk, Thousand))]
C8_RowT(fk) == [i \in 1..SampleCount |-> TJ(C8_RowP(fk)[i])]

\* C8: what is produced for a scenario depends only on its frequency and
\* the fixed parameters, not on its position or on the other scenarios;
\* curves come out in the order of the frequency list, samples in grid order.
C8_ScenarioIndependence ==
    Plotted =>
        /\ Len(lines) = fi - 1 /\ Len(slopes) = fi - 1
        /\ (pc = "done" => Len(lines) = Len(freq_list_khz))
        /\ \A j \in DOMAIN lines :
            /\ lines[j].label = freq_list_khz[j]
            /\ lines[j].x = ciss_range_pF
            /\ lines[j].P = C8_RowP(freq_list_khz[j])
            /\ lines[j].T = C8_RowT(freq_list_khz[j])
            /\ slopes[j].P = SlopeOf(C8_RowP(freq_list_khz[j]), ciss_range_pF)
            /\ slopes[j].T = SlopeOf(C8_RowT(freq_list_khz[j]), ciss_range_pF)
        /\ \A j, k \in DOMAIN lines :
            freq_list_khz[j] = freq_list_khz[k] =>
                lines[j] = lines[k] /\ slopes[j] = slopes[k]

C8_Witness ==
    /\ pc = "done" /\ Len(lines) = 2
    /\ Less(freq_list_khz[2], freq_list_khz[1])
    /\ IsFinite(slopes[2].P) /\ slopes[1] # slopes[2]

C10_PerNF(fk) ==
    Mul(Mul(Add(NpDiv(Mul(Mul(Mul(Half, V_in), I_out), V_drive), I_driver),
                Mul(V_drive, V_drive)),
            Mul(fk, Int2F(1000))),
        Dec(1, -9))

\* C10: for finite values and a sweep of non-zero width the temperature
\* slope is Rth_ja times the power slope, and neither Tamb nor P_cond
\* appears in either: the power slope is
\* (0.5*Vin*Iout*Vdrive/Idriver + Vdrive^2) * Fsw * 1e-9 W/nF.
C10_SlopeTIsRthTimesSlopeP ==
    ~ZeroWidth =>
        \A j \in DOMAIN slopes :
            (IsFinite(slopes[j].P) /\ IsFinite(slopes[j].T)) =>
                /\ slopes[j].T = Mul(Rtha, slopes[j].P)
                /\ slopes[j].P = C10_PerNF(freq_list_khz[j])

C10_Witness ==
    /\ pc = "done" /\ ~ZeroWidth /\ Len(slopes) = 3
    /\ IsFinite(slopes[3].P) /\ IsFinite(slopes[3].T)
    /\ ~IsZero(slopes[3].T) /\ ~IsZero(Tamb) /\ ~IsZero(P_cond)
    /\ slopes[3].T # slopes[3].P

====
